---- MODULE Spec2Model ----
(***************************************************************************)
(* SBNGraph of sbn_smatch_fine_grained.py: the parser from_string, the     *)
(* serializers to_sbn_string and to_penman_string, and the comparator      *)
(* sbn_graphs_are_isomorphic.                                              *)
(*                                                                         *)
(* A Python str is modelled by its whitespace-separated words: a Text is   *)
(* a sequence of words, " ".join(parts) is the concatenation of the parts  *)
(* and str.split() is the sequence itself.  A token is one word.           *)
(***************************************************************************)
EXTENDS Integers, Sequences, FiniteSets, TLC

VARIABLES doc, g, run, op, err, sbn, doc2, h, rel, iso, penman, strict

vars == <<doc, g, run, op, err, sbn, doc2, h, rel, iso, penman, strict>>

(***************************************************************************)
(* Bounds of the model.                                                    *)
(***************************************************************************)
MaxLines == 3
MaxItems == 2
MaxDigit == 2

(***************************************************************************)
(* Small helpers.                                                          *)
(***************************************************************************)
Range(s) == {s[i] : i \in 1..Len(s)}

Max0(n) == IF n <= 0 THEN 0 ELSE n

RECURSIVE Flatten(_)
Flatten(ss) == IF ss = <<>> THEN <<>> ELSE Head(ss) \o Flatten(Tail(ss))

(***************************************************************************)
(* SBN_NODE_TYPE, SBN_EDGE_TYPE and the vocabularies and patterns of       *)
(* SBNSpec (sbn_spec.py).                                                  *)
(***************************************************************************)
BOX == "Box"
SYNSET == "Synset"
CONSTANT_NODE == "Constant"
ROLE == "Role"
DRS_OPERATOR == "DrsOperator"
BOX_CONNECT == "BoxConnect"
BOX_BOX_CONNECT == "BoxBoxConnect"
SYN_BOX_CONNECT == "SynBoxConnect"

SBN_NODE_TYPE == {BOX, SYNSET, CONSTANT_NODE}
SBN_EDGE_TYPE == {ROLE, DRS_OPERATOR, BOX_CONNECT, BOX_BOX_CONNECT, SYN_BOX_CONNECT}

MIN_SYNSET_IDX == 0

NEW_BOX_INDICATORS == {"NEGATION", "CONTINUATION"}
ROLES == {"Agent", "Theme", "Name", "AttributeOf"}
DRS_OPERATORS == {"EQU"}
INVERTIBLE_ROLES == {"AttributeOf"}

SynsetTokens == {"person.n.01", "see.v.01"}

\* SYNSET_PATTERN.match(token): r"(.+)\.(n|v|a|r)\.(\d+)"
SYNSET_PATTERN_match(token) == token \in SynsetTokens

\* split_synset_id(token): the (lemma, pos, sense) components
split_synset_id(token) ==
    CASE token = "person.n.01" -> <<"person", "n", "01">>
      [] token = "see.v.01" -> <<"see", "v", "01">>
      [] OTHER -> <<>>

Signs == {"-", "+", "<", ">"}

\* The tokens that are a sign followed by digits and nothing else.
IndexTokens == {s \o ToString(n) : s \in Signs, n \in 0..MaxDigit}

\* INDEX_PATTERN.match(token).group(0): the matched prefix of the token,
\* "" when the pattern does not match at the start of the token.
INDEX_PATTERN_match(token) ==
    CASE token \in IndexTokens -> token
      [] token = "-1x" -> "-1"
      [] OTHER -> ""

\* '"<" in target or ">" in target'
HasAngle(token) == \E n \in 0..MaxDigit : token \in {"<" \o ToString(n), ">" \o ToString(n)}

\* target.replace("<", "-").replace(">", "+")
ReplaceAngles(token) ==
    IF \E n \in 0..MaxDigit : token = "<" \o ToString(n)
    THEN "-" \o ToString(CHOOSE n \in 0..MaxDigit : token = "<" \o ToString(n))
    ELSE IF \E n \in 0..MaxDigit : token = ">" \o ToString(n)
    THEN "+" \o ToString(CHOOSE n \in 0..MaxDigit : token = ">" \o ToString(n))
    ELSE token

\* NAME_CONSTANT_PATTERN.match(token): r"\"(.+)\"|\"(.+)"
NAME_CONSTANT_PATTERN_match(token) == token \in {"\"Tom\"", "\"Ann\"", "\"New"}

\* token.endswith('"')
EndsWithQuote(token) == token \in {"\"Tom\"", "\"Ann\"", "York\""}

(***************************************************************************)
(* _try_parse_idx: int(possible_idx), an SBNError when int() fails.        *)
(***************************************************************************)
IntParses(s) == \E n \in 0..MaxDigit : s \in {"-" \o ToString(n), "+" \o ToString(n)}

IntOf(s) ==
    IF \E n \in 0..MaxDigit : s = "-" \o ToString(n)
    THEN 0 - (CHOOSE n \in 0..MaxDigit : s = "-" \o ToString(n))
    ELSE CHOOSE n \in 0..MaxDigit : s = "+" \o ToString(n)

try_parse_idx(possible_idx) ==
    IF IntParses(possible_idx)
    THEN [ok |-> TRUE, idx |-> IntOf(possible_idx)]
    ELSE [ok |-> FALSE, idx |-> 0]

(***************************************************************************)
(* The identity allocator.                                                 *)
(***************************************************************************)
init_type_indices == [t \in SBN_NODE_TYPE \cup SBN_EDGE_TYPE |-> 0]

id_for_type(type_indices, type) ==
    [id |-> <<type, type_indices[type]>>,
     type_indices |-> [type_indices EXCEPT ![type] = @ + 1]]

active_synset_id(type_indices) == <<SYNSET, type_indices[SYNSET] - 1>>

active_box_id(type_indices) == <<BOX, type_indices[BOX] - 1>>

active_box_token(type_indices) == <<"B-" \o ToString(type_indices[BOX])>>

\* str(node_id) / str(edge_id), the token of a node or edge created without one
StrId(id) == <<"(" \o id[1] \o "," \o ToString(id[2]) \o ")">>

(***************************************************************************)
(* The running state of one from_string call: the allocator's counters,    *)
(* the node and edge accumulators, the ill-formed flag, the raised error.  *)
(* alloc (every identity the allocator returned, in order) and events      *)
(* (the branch taken for every classified token, with the position of the  *)
(* token in the document, counted from 0) are history fields.              *)
(***************************************************************************)
NoId == <<"None", 0>>

Event(ev, token, target, idx, src, dst) ==
    [ev |-> ev, token |-> token, target |-> target, idx |-> idx, src |-> src, dst |-> dst,
     pos |-> 0]

\* create_node(type, token): the new state and the node tuple
create_node(p, type, token) ==
    LET r == id_for_type(p.type_indices, type) IN
    [p |-> [p EXCEPT !.type_indices = r.type_indices, !.alloc = Append(@, r.id)],
     node |-> [id |-> r.id, type |-> type, type_idx |-> r.id[2],
               token |-> IF token = <<>> THEN StrId(r.id) ELSE token]]

\* create_edge(from, to, type, token): the new state and the edge tuple
create_edge(p, from_node_id, to_node_id, type, token) ==
    LET r == id_for_type(p.type_indices, type) IN
    [p |-> [p EXCEPT !.type_indices = r.type_indices, !.alloc = Append(@, r.id)],
     edge |-> [from |-> from_node_id, to |-> to_node_id, type |-> type,
               type_idx |-> r.id[2],
               token |-> IF token = <<>> THEN StrId(r.id) ELSE token]]

Raise(p, e) == [p EXCEPT !.err = e]

(***************************************************************************)
(* from_string, one branch of the token loop per operator.  Every branch   *)
(* returns the new running state and the tokens left on the line.          *)
(***************************************************************************)

\* lines 156-178: the first token of a line is a sense id
SynsetBranch(p, token, tokens) ==
    LET n == create_node(p, SYNSET, <<token>>)
        e == create_edge(n.p, active_box_id(n.p.type_indices),
                         active_synset_id(n.p.type_indices), BOX_CONNECT, <<>>)
    IN [p |-> [e.p EXCEPT !.nodes = Append(@, n.node),
                          !.edges = Append(@, e.edge),
                          !.events = Append(@, Event("synset", token, <<>>, 0,
                                                     e.edge.from, n.node.id))],
        tokens |-> tokens]

\* the link source without the clamp at box 0
link_edge_NoClamp(current_box_idx, idx) == current_box_idx + idx + 1

\* lines 204-214: the box the new box is linked from
link_edge(current_box_idx, idx) == Max0(current_box_idx + idx + 1)

\* lines 179-214: a new-box indicator
NewBoxBranch(p, token, tokens) ==
    IF tokens = <<>>
    THEN [p |-> Raise(p, "MissingBoxIndex"), tokens |-> tokens]
    ELSE LET box_index == Head(tokens)
             rest == Tail(tokens)
         IN IF INDEX_PATTERN_match(box_index) = ""
            THEN [p |-> [p EXCEPT !.events = Append(@, Event("newbox_ignored", token,
                                                   <<box_index>>, 0, NoId, NoId))],
                  tokens |-> rest]
            ELSE LET r == try_parse_idx(ReplaceAngles(box_index)) IN
                 IF ~r.ok
                 THEN [p |-> Raise(p, "InvalidIndex"), tokens |-> rest]
                 ELSE LET current_box_id == active_box_id(p.type_indices)
                          n == create_node(p, BOX, active_box_token(p.type_indices))
                          p1 == [n.p EXCEPT !.nodes = Append(@, n.node)]
                          e == create_edge(p1, <<current_box_id[1],
                                                 link_edge(current_box_id[2], r.idx)>>,
                                           active_box_id(p1.type_indices),
                                           BOX_BOX_CONNECT, <<token>>)
                          ev == Event("newbox", token, <<box_index>>, r.idx,
                                      current_box_id, n.node.id)
                      IN IF r.idx # 0
                         THEN [p |-> [e.p EXCEPT !.edges = Append(@, e.edge),
                                                 !.events = Append(@, ev)],
                               tokens |-> rest]
                         ELSE [p |-> [p1 EXCEPT !.events = Append(@, ev)],
                               tokens |-> rest]

\* lines 228-234: the kind of the edge a role or operator token makes
EdgeTypeOf(is_role, target) ==
    IF is_role
    THEN (IF HasAngle(target) THEN SYN_BOX_CONNECT ELSE ROLE)
    ELSE DRS_OPERATOR

\* the range test with the last line excluded
InSynsetRange_Strict(target_idx, max_wn_idx) ==
    MIN_SYNSET_IDX <= target_idx /\ target_idx < max_wn_idx

\* line 245: the resolved index points at a possible synset
InSynsetRange(target_idx, max_wn_idx) ==
    MIN_SYNSET_IDX <= target_idx /\ target_idx <= max_wn_idx

\* lines 238-279: an index target of a Role or DrsOperator edge
IndexTargetBranch(p, token, target, rest, edge_type, max_wn_idx) ==
    LET r == try_parse_idx(INDEX_PATTERN_match(target)) IN
    IF ~r.ok
    THEN [p |-> Raise(p, "InvalidIndex"), tokens |-> rest]
    ELSE LET active_id == active_synset_id(p.type_indices)
             target_idx == active_id[2] + r.idx
             to_id == <<active_id[1], target_idx>>
         IN IF InSynsetRange(target_idx, max_wn_idx)
            THEN LET e == create_edge(p, active_id, to_id, edge_type, <<token>>) IN
                 [p |-> [e.p EXCEPT !.edges = Append(@, e.edge),
                                    !.events = Append(@, Event("edge_synset", token,
                                                  <<target>>, r.idx, active_id, to_id))],
                  tokens |-> rest]
            ELSE LET n == create_node(p, CONSTANT_NODE, <<target>>)
                     e == create_edge(n.p, active_synset_id(n.p.type_indices),
                                      n.node.id, edge_type, <<token>>)
                 IN [p |-> [e.p EXCEPT !.is_possibly_ill_formed = TRUE,
                                       !.nodes = Append(@, n.node),
                                       !.edges = Append(@, e.edge),
                                       !.events = Append(@, Event("edge_out_of_range",
                                           token, <<target>>, r.idx, active_id, n.node.id))],
                     tokens |-> rest]

\* lines 281-294: an index target of a SynBoxConnect edge
SynBoxBranch(p, token, target, rest) ==
    LET r == try_parse_idx(ReplaceAngles(target)) IN
    IF ~r.ok
    THEN [p |-> Raise(p, "InvalidIndex"), tokens |-> rest]
    ELSE LET active_id == active_synset_id(p.type_indices)
             box == active_box_id(p.type_indices)
             to_id == <<box[1], box[2] + r.idx>>
             e == create_edge(p, active_id, to_id, SYN_BOX_CONNECT, <<token>>)
         IN [p |-> [e.p EXCEPT !.edges = Append(@, e.edge),
                               !.events = Append(@, Event("edge_box", token, <<target>>,
                                                          r.idx, active_id, to_id))],
             tokens |-> rest]

\* lines 300-306: the parts of a quoted name, popped until one ends with
\* the closing quote; tokens.pop(0) on an empty list is an IndexError
RECURSIVE NameParts(_, _, _)
NameParts(name_parts, target, tokens) ==
    IF EndsWithQuote(target)
    THEN [ok |-> TRUE, name_parts |-> name_parts, tokens |-> tokens]
    ELSE IF tokens = <<>>
    THEN [ok |-> FALSE, name_parts |-> name_parts, tokens |-> tokens]
    ELSE NameParts(Append(name_parts, Head(tokens)), Head(tokens), Tail(tokens))

\* the join with the closing part left out
JoinParts_DropLast(name_parts) == SubSeq(name_parts, 1, Len(name_parts) - 1)

\* " ".join(name_parts)
JoinParts(name_parts) == name_parts

\* a constant target that shares the node of an earlier constant with the
\* same text
ConstantBranch_Shared(p, ev, token, name, consumed, rest) ==
    LET same == {k \in 1..Len(p.nodes) :
                   p.nodes[k].type = CONSTANT_NODE /\ p.nodes[k].token = name}
        n == IF same = {} THEN create_node(p, CONSTANT_NODE, name)
             ELSE [p |-> p, node |-> p.nodes[CHOOSE k \in same : TRUE]]
        e == create_edge(n.p, active_synset_id(n.p.type_indices), n.node.id,
                         ROLE, <<token>>)
    IN [p |-> [e.p EXCEPT !.nodes = IF same = {} THEN Append(@, n.node) ELSE @,
                          !.edges = Append(@, e.edge),
                          !.events = Append(@, Event(ev, token, consumed, 0,
                                                     e.edge.from, n.node.id))],
        tokens |-> rest]

\* lines 311-324 and 326-339: a constant target, always on a Role edge
ConstantBranch(p, ev, token, name, consumed, rest) ==
    LET n == create_node(p, CONSTANT_NODE, name)
        e == create_edge(n.p, active_synset_id(n.p.type_indices), n.node.id,
                         ROLE, <<token>>)
    IN [p |-> [e.p EXCEPT !.nodes = Append(@, n.node),
                          !.edges = Append(@, e.edge),
                          !.events = Append(@, Event(ev, token, consumed, 0,
                                                     e.edge.from, n.node.id))],
        tokens |-> rest]

\* lines 299-324: a quoted name
NameBranch(p, token, target, rest) ==
    LET np == NameParts(<<target>>, target, rest) IN
    IF ~np.ok
    THEN [p |-> Raise(p, "IndexError"), tokens |-> np.tokens]
    ELSE ConstantBranch(p, "name", token, JoinParts(np.name_parts), np.name_parts,
                        np.tokens)

\* lines 216-339: a role or a DRS operator
RoleBranch(p, token, tokens, max_wn_idx) ==
    IF tokens = <<>>
    THEN [p |-> Raise(p, "MissingTarget"), tokens |-> tokens]
    ELSE LET target == Head(tokens)
             rest == Tail(tokens)
             edge_type == EdgeTypeOf(token \in ROLES, target)
         IN IF INDEX_PATTERN_match(target) # ""
            THEN (IF edge_type \in {ROLE, DRS_OPERATOR}
                  THEN IndexTargetBranch(p, token, target, rest, edge_type, max_wn_idx)
                  ELSE SynBoxBranch(p, token, target, rest))
            ELSE IF NAME_CONSTANT_PATTERN_match(target)
            THEN NameBranch(p, token, target, rest)
            ELSE ConstantBranch(p, "constant", token, <<target>>, <<target>>, rest)

\* lines 152-344: the branch a token takes
Classify(p, token, rest, tok_count, max_wn_idx) ==
    IF tok_count = 0 /\ SYNSET_PATTERN_match(token)
    THEN SynsetBranch(p, token, rest)
    ELSE IF token \in NEW_BOX_INDICATORS
    THEN NewBoxBranch(p, token, rest)
    ELSE IF token \in ROLES \/ token \in DRS_OPERATORS
    THEN RoleBranch(p, token, rest, max_wn_idx)
    ELSE [p |-> [p EXCEPT !.events = Append(@, Event("skip", token, <<>>, 0, NoId, NoId))],
          tokens |-> rest]

\* the history fields after a branch: the position of the classified token
\* on its event, and the position of the next token
Logged(p, q, consumed) ==
    IF Len(q.events) > Len(p.events)
    THEN [q EXCEPT !.events[Len(q.events)].pos = p.pos, !.pos = @ + consumed]
    ELSE [q EXCEPT !.pos = @ + consumed]

\* lines 150-345: the token loop of one line
RECURSIVE ParseTokens(_, _, _, _)
RECURSIVE AfterBranch(_, _, _, _, _)
AfterBranch(p, before, b, tok_count, max_wn_idx) ==
    ParseTokens(Logged(p, b.p, before - Len(b.tokens)), b.tokens, tok_count + 1,
                max_wn_idx)

ParseTokens(p, tokens, tok_count, max_wn_idx) ==
    IF p.err # "none" \/ tokens = <<>>
    THEN p
    ELSE AfterBranch(p, Len(tokens),
                     Classify(p, Head(tokens), Tail(tokens), tok_count, max_wn_idx),
                     tok_count, max_wn_idx)

\* lines 146-147: the loop over the lines
RECURSIVE ParseLines(_, _, _)
ParseLines(p, lines, max_wn_idx) ==
    IF p.err # "none" \/ lines = <<>>
    THEN p
    ELSE ParseLines(ParseTokens(p, Head(lines), 0, max_wn_idx), Tail(lines), max_wn_idx)

(***************************************************************************)
(* The graph store: networkx.DiGraph as BaseGraph uses it.  nodes is the   *)
(* insertion order of the nodes, attrs their data (has = FALSE for a node  *)
(* that only an edge brought in, whose data dict is empty), edges the      *)
(* edges in insertion order, at most one per (from, to).                   *)
(***************************************************************************)
NoAttr == [has |-> FALSE, type |-> "None", token |-> <<>>]

EmptyDiGraph == [nodes |-> <<>>, attrs |-> <<>>, edges |-> <<>>]

HasNode(G, id) == id \in Range(G.nodes)

AttrOf(G, id) == G.attrs[CHOOSE i \in 1..Len(G.nodes) : G.nodes[i] = id]

\* DiGraph.add_node(id, **data): a known node keeps its place, its data is updated
add_node(G, id, data) ==
    IF HasNode(G, id)
    THEN LET i == CHOOSE j \in 1..Len(G.nodes) : G.nodes[j] = id IN
         [G EXCEPT !.attrs[i] = IF data.has THEN data ELSE @]
    ELSE [G EXCEPT !.nodes = Append(@, id), !.attrs = Append(@, data)]

\* DiGraph.add_edge(u, v, **data): unknown end points become nodes without
\* data; the data of a known (u, v) is overwritten in place
add_edge(G, e) ==
    LET G1 == add_node(add_node(G, e.from, NoAttr), e.to, NoAttr) IN
    IF \E i \in 1..Len(G1.edges) : G1.edges[i].from = e.from /\ G1.edges[i].to = e.to
    THEN LET i == CHOOSE j \in 1..Len(G1.edges) :
                      G1.edges[j].from = e.from /\ G1.edges[j].to = e.to
         IN [G1 EXCEPT !.edges[i] = e]
    ELSE [G1 EXCEPT !.edges = Append(@, e)]

RECURSIVE add_nodes_from(_, _)
add_nodes_from(G, nodes) ==
    IF nodes = <<>> THEN G
    ELSE add_nodes_from(add_node(G, Head(nodes).id,
                                 [has |-> TRUE, type |-> Head(nodes).type,
                                  token |-> Head(nodes).token]),
                        Tail(nodes))

RECURSIVE add_edges_from(_, _)
add_edges_from(G, edges) ==
    IF edges = <<>> THEN G ELSE add_edges_from(add_edge(G, Head(edges)), Tail(edges))

\* DiGraph.out_edges(n), in adjacency order
out_edges(G, n) == SelectSeq(G.edges, LAMBDA e : e.from = n)

in_degree(G, n) == Cardinality({i \in 1..Len(G.edges) : G.edges[i].to = n})

out_degree(G, n) == Cardinality({i \in 1..Len(G.edges) : G.edges[i].from = n})

Successors(G, S) == {G.edges[i].to : i \in {j \in 1..Len(G.edges) : G.edges[j].from \in S}}

RECURSIVE Descendants(_, _)
Descendants(G, S) ==
    LET T == S \cup Successors(G, S) IN IF T = S THEN S ELSE Descendants(G, T)

\* networkx.is_directed_acyclic_graph
is_directed_acyclic_graph(G) ==
    \A n \in Range(G.nodes) : n \notin Descendants(G, Successors(G, {n}))

\* the flag left as it was
check_is_dag_Stale(self) == self

\* lines 744-746
check_is_dag(self) == [self EXCEPT !.is_dag = is_directed_acyclic_graph(self.G)]

(***************************************************************************)
(* SBNGraph() and from_string.                                             *)
(***************************************************************************)
\* lines 102-112
NewGraph ==
    [G |-> EmptyDiGraph, is_dag |-> FALSE, is_possibly_ill_formed |-> FALSE,
     type_indices |-> init_type_indices]

NoRun == [nodes |-> <<>>, edges |-> <<>>, alloc |-> <<>>, events |-> <<>>,
          max_wn_idx |-> 0]

\* the call started without restarting the counters
StartParse_NoReset(self) ==
    LET p0 == [type_indices |-> self.type_indices, nodes |-> <<>>, edges |-> <<>>,
               is_possibly_ill_formed |-> self.is_possibly_ill_formed,
               err |-> "none", alloc |-> <<>>, events |-> <<>>, pos |-> 0]
        n == create_node(p0, BOX, active_box_token(p0.type_indices))
    IN [n.p EXCEPT !.nodes = Append(@, n.node)]

\* lines 136-142: the counters restart and the starting box is created
StartParse(self) ==
    LET p0 == [type_indices |-> init_type_indices, nodes |-> <<>>, edges |-> <<>>,
               is_possibly_ill_formed |-> self.is_possibly_ill_formed,
               err |-> "none", alloc |-> <<>>, events |-> <<>>, pos |-> 0]
        n == create_node(p0, BOX, active_box_token(p0.type_indices))
    IN [n.p EXCEPT !.nodes = Append(@, n.node)]

\* the accumulators merged although the call raised
FinishParse_MergeAlways(self, p, max_wn_idx) ==
    [self |-> check_is_dag(
                [self EXCEPT !.type_indices = p.type_indices,
                             !.is_possibly_ill_formed = p.is_possibly_ill_formed,
                             !.G = add_edges_from(add_nodes_from(@, p.nodes), p.edges)]),
     err |-> p.err,
     run |-> [nodes |-> p.nodes, edges |-> p.edges, alloc |-> p.alloc,
              events |-> p.events, max_wn_idx |-> max_wn_idx]]

\* lines 347-353: the accumulators are merged into the graph and the DAG
\* check is run; a call that raised has only touched the counters and the flag
FinishParse(self, p, max_wn_idx) ==
    [self |-> IF p.err # "none"
              THEN [self EXCEPT !.type_indices = p.type_indices,
                                !.is_possibly_ill_formed = p.is_possibly_ill_formed]
              ELSE check_is_dag(
                     [self EXCEPT !.type_indices = p.type_indices,
                                  !.is_possibly_ill_formed = p.is_possibly_ill_formed,
                                  !.G = add_edges_from(add_nodes_from(@, p.nodes),
                                                       p.edges)]),
     err |-> p.err,
     run |-> [nodes |-> p.nodes, edges |-> p.edges, alloc |-> p.alloc,
              events |-> p.events, max_wn_idx |-> max_wn_idx]]

\* lines 120-353: the object after the call, the error raised ("none" when
\* the call returns) and the locals of the call
from_string(self, lines) ==
    IF lines = <<>>
    THEN [self |-> self, err |-> "EmptyDocument", run |-> NoRun]
    ELSE FinishParse(self, ParseLines(StartParse(self), lines, Len(lines) - 1),
                     Len(lines) - 1)

(***************************************************************************)
(* to_sbn_string.  A reading under construction is a sequence of fields:   *)
(* a node id still to be resolved, or a literal text.                      *)
(***************************************************************************)
IdField(id) == [k |-> "id", id |-> id, text |-> <<>>]

TextField(text) == [k |-> "text", id |-> NoId, text |-> text]

\* lines 441-467: the reading of one synset or constant, from its id and
\* its outgoing edges
RECURSIVE SynsetReading(_, _, _)
SynsetReading(G, temp_line_result, syn_edges) ==
    IF syn_edges = <<>>
    THEN [err |-> "none", line |-> temp_line_result]
    ELSE LET syn_edge == Head(syn_edges)
             syn_node_to_data == AttrOf(G, syn_edge.to)
         IN IF syn_edge.type \notin {ROLE, DRS_OPERATOR}
            THEN [err |-> "InvalidSynsetEdge", line |-> temp_line_result]
            ELSE IF ~syn_node_to_data.has
            THEN [err |-> "KeyError", line |-> temp_line_result]
            ELSE IF syn_node_to_data.type = SYNSET
            THEN SynsetReading(G, temp_line_result \o
                                  <<TextField(syn_edge.token), IdField(syn_edge.to)>>,
                               Tail(syn_edges))
            ELSE IF syn_node_to_data.type = CONSTANT_NODE
            THEN SynsetReading(G, temp_line_result \o
                                  <<TextField(syn_edge.token),
                                    TextField(syn_node_to_data.token)>>,
                               Tail(syn_edges))
            ELSE [err |-> "InvalidSynsetNode", line |-> temp_line_result]

\* lines 417-474: the outgoing edges of one box.  st holds result,
\* synset_idx_map, line_idx, box_box_connect_to_insert and the error raised
RECURSIVE BoxEdges(_, _, _)
BoxEdges(G, st, box_edges) ==
    IF st.err # "none" \/ box_edges = <<>>
    THEN st
    ELSE LET edge == Head(box_edges)
             to_node_id == edge.to
             to_node_type == to_node_id[1]
             multiple == edge.type = BOX_BOX_CONNECT /\ st.box_box_connect_to_insert # <<>>
             st1 == IF edge.type = BOX_BOX_CONNECT
                    THEN [st EXCEPT !.box_box_connect_to_insert = edge.token]
                    ELSE st
         IN IF multiple
            THEN [st EXCEPT !.err = "MultipleBoxBox"]
            ELSE IF to_node_type \in {SYNSET, CONSTANT_NODE}
            THEN IF to_node_id \in DOMAIN st1.synset_idx_map
                 THEN [st1 EXCEPT !.err = "AmbiguousSynset"]
                 ELSE LET r == SynsetReading(G, <<IdField(to_node_id)>>,
                                             out_edges(G, to_node_id))
                      IN IF r.err # "none"
                         THEN [st1 EXCEPT !.err = r.err]
                         ELSE BoxEdges(G,
                                [st1 EXCEPT
                                   !.synset_idx_map = (to_node_id :> st1.line_idx) @@ @,
                                   !.result = Append(@, r.line),
                                   !.line_idx = @ + 1],
                                Tail(box_edges))
            ELSE IF to_node_type = BOX
            THEN BoxEdges(G, st1, Tail(box_edges))
            ELSE [st1 EXCEPT !.err = "InvalidNodeId"]

\* lines 415-477: the loop over the boxes, in node order
RECURSIVE BoxLoop(_, _, _)
BoxLoop(G, st, box_nodes) ==
    IF st.err # "none" \/ box_nodes = <<>>
    THEN st
    ELSE LET st1 == BoxEdges(G, [st EXCEPT !.box_box_connect_to_insert = <<>>],
                             out_edges(G, Head(box_nodes)))
             st2 == IF st1.err = "none" /\ st1.box_box_connect_to_insert # <<>>
                    THEN [st1 EXCEPT !.result = Append(@,
                               <<TextField(st1.box_box_connect_to_insert),
                                 TextField(<<"-1">>)>>)]
                    ELSE st1
         IN BoxLoop(G, st2, Tail(box_nodes))

\* lines 516-518: f"+{target}" if target >= 0 else str(target)
FormatIndex(target) == IF target >= 0 THEN "+" \o ToString(target) ELSE ToString(target)

\* the index without the 1 that makes up for the reading's own count
RelativeIndex_NoBias(mapped_line_idx, current_syn_idx) == mapped_line_idx - current_syn_idx

\* line 513: the index written for a reference to a mapped synset
RelativeIndex(mapped_line_idx, current_syn_idx) == mapped_line_idx - current_syn_idx + 1

\* lines 494-521: the fields of one reading after its first
RECURSIVE ResolveFields(_, _, _, _)
ResolveFields(G, synset_idx_map, current_syn_idx, fields) ==
    IF fields = <<>>
    THEN [err |-> "none", tmp_line |-> <<>>]
    ELSE LET f == Head(fields)
             rest == ResolveFields(G, synset_idx_map, current_syn_idx, Tail(fields))
         IN IF f.k = "id" /\ f.id \notin DOMAIN synset_idx_map
            THEN [err |-> "TypeError", tmp_line |-> <<>>]
            ELSE IF rest.err # "none"
            THEN rest
            ELSE [err |-> "none",
                  tmp_line |->
                     (IF f.k = "id"
                      THEN <<FormatIndex(RelativeIndex(synset_idx_map[f.id],
                                                       current_syn_idx))>>
                      ELSE f.text) \o rest.tmp_line]

\* lines 489-531: the second pass over the readings
RECURSIVE ResolveLines(_, _, _, _)
ResolveLines(G, synset_idx_map, current_syn_idx, result) ==
    IF result = <<>>
    THEN [err |-> "none", final_result |-> <<>>]
    ELSE LET line == Head(result)
             first == Head(line)
             is_synset == first.k = "id" /\ first.id \in DOMAIN synset_idx_map
             syn_idx == IF is_synset THEN current_syn_idx + 1 ELSE current_syn_idx
             head_text == IF is_synset THEN AttrOf(G, first.id).token ELSE first.text
             fields == ResolveFields(G, synset_idx_map, syn_idx, Tail(line))
             rest == ResolveLines(G, synset_idx_map, syn_idx, Tail(result))
         IN IF fields.err # "none"
            THEN [err |-> fields.err, final_result |-> <<>>]
            ELSE IF rest.err # "none"
            THEN rest
            ELSE [err |-> "none",
                  final_result |-> <<head_text \o fields.tmp_line>> \o rest.final_result]

\* lines 406-540: the error raised ("none" when the call returns) and the
\* returned string as its lines; max() of no readings is a ValueError
to_sbn_string(self) ==
    LET G == self.G
        box_nodes == SelectSeq(G.nodes, LAMBDA node : node[1] = BOX)
        st == BoxLoop(G, [result |-> <<>>, synset_idx_map |-> <<>>, line_idx |-> 0,
                          box_box_connect_to_insert |-> <<>>, err |-> "none"],
                      box_nodes)
        r == ResolveLines(G, st.synset_idx_map, 0, st.result)
    IN IF st.err # "none"
       THEN [err |-> st.err, out |-> <<>>]
       ELSE IF r.err # "none"
       THEN [err |-> r.err, out |-> <<>>]
       ELSE IF r.final_result = <<>>
       THEN [err |-> "ValueError", out |-> <<>>]
       ELSE [err |-> "none", out |-> r.final_result]

(***************************************************************************)
(* to_penman_string.  The returned string is modelled by its pieces, in    *)
(* order: "open" is '(var / "concept"', "attr" a ':lemma' or ':pos' line   *)
(* of a synset, "edge" a ':name ' label, "ref" a bare variable, "literal"  *)
(* a quoted constant and "close" a ')'.  Indentation is left out.          *)
(***************************************************************************)
Piece(t, var, text) == [t |-> t, var |-> var, text |-> text]

StartsWithQuote(token) == token \in {"\"Tom\"", "\"Ann\"", "\"New"}

\* lines 757-766: quote (no token of the model is wrapped in single quotes)
quote(in_str) ==
    IF in_str = <<>> THEN <<"\"\"">>
    ELSE IF StartsWithQuote(in_str[1]) /\ EndsWithQuote(in_str[Len(in_str)])
    THEN in_str
    ELSE IF Len(in_str) = 1 THEN <<"\"" \o in_str[1] \o "\"">>
    ELSE <<"\"" \o in_str[1]>> \o SubSeq(in_str, 2, Len(in_str) - 1)
         \o <<in_str[Len(in_str)] \o "\"">>

\* lines 594-603: the variable of a node, its kind's letter and its rank
\* among the nodes of its kind in node order
VarPrefix(type) ==
    CASE type = BOX -> "b" [] type = CONSTANT_NODE -> "c" [] type = SYNSET -> "s"

VarId(G, i) ==
    VarPrefix(G.attrs[i].type) \o
    ToString(Cardinality({j \in 1..(i - 1) : G.attrs[j].type = G.attrs[i].type}))

VarOf(G, id) == VarId(G, CHOOSE i \in 1..Len(G.nodes) : G.nodes[i] = id)

\* lines 600-614: the working copy, boxes renamed "box" and box connectors
\* "member"
PenmanCopy(G) ==
    [G EXCEPT
       !.attrs = [i \in 1..Len(G.attrs) |->
                    IF G.attrs[i].type = BOX
                    THEN [G.attrs[i] EXCEPT !.token = <<"box">>] ELSE G.attrs[i]],
       !.edges = [i \in 1..Len(G.edges) |->
                    IF G.edges[i].type = BOX_CONNECT
                    THEN [G.edges[i] EXCEPT !.token = <<"member">>] ELSE G.edges[i]]]

\* lines 677-684: edge_name.replace("Of", "-of") for an invertible role
PenmanEdgeName(edge_name) ==
    IF edge_name = <<"AttributeOf">> THEN <<"Attribute-of">> ELSE edge_name

\* lines 627-653: how a node met for the first time is opened
OpenNode(node_data, var_id, is_strict) ==
    IF node_data.type = SYNSET
    THEN LET c == split_synset_id(node_data.token[1]) IN
         IF is_strict
         THEN <<Piece("open", var_id, quote(<<c[1] \o "." \o c[2] \o "." \o c[3]>>))>>
         ELSE <<Piece("open", var_id, quote(<<"synset">>)),
                Piece("attr", "lemma", quote(<<c[1]>>)),
                Piece("attr", "pos", quote(<<c[2]>>))>>
    ELSE IF is_strict /\ node_data.type = CONSTANT_NODE
    THEN <<Piece("literal", var_id, quote(node_data.token))>>
    ELSE <<Piece("open", var_id, quote(node_data.token))>>

\* lines 695-699: how a node is closed
CloseNode(node_data) ==
    IF node_data.type = CONSTANT_NODE THEN <<>> ELSE <<Piece("close", "", <<>>)>>

\* lines 616-700: __to_penman_str, the pieces written and the visited set
RECURSIVE to_penman_str(_, _, _, _, _)
RECURSIVE PenmanChildren(_, _, _, _, _)
\* the emission that forgets which nodes it has expanded
to_penman_str_NoVisited(S, current_n, visited, out_str, is_strict) ==
    LET node_data == AttrOf(S, current_n)
        var_id == VarOf(S, current_n)
        r == PenmanChildren(S, out_edges(S, current_n), visited,
                            out_str \o OpenNode(node_data, var_id, is_strict),
                            is_strict)
    IN [out_str |-> r.out_str \o CloseNode(node_data), visited |-> r.visited]

to_penman_str(S, current_n, visited, out_str, is_strict) ==
    LET node_data == AttrOf(S, current_n)
        var_id == VarOf(S, current_n)
    IN IF var_id \in visited
       THEN [out_str |-> Append(out_str, Piece("ref", var_id, <<>>)), visited |-> visited]
       ELSE LET r == PenmanChildren(S, out_edges(S, current_n), visited,
                                    out_str \o OpenNode(node_data, var_id, is_strict),
                                    is_strict)
            IN [out_str |-> r.out_str \o CloseNode(node_data),
                visited |-> r.visited \cup {var_id}]

PenmanChildren(S, edge_ids, visited, out_str, is_strict) ==
    IF edge_ids = <<>>
    THEN [out_str |-> out_str, visited |-> visited]
    ELSE LET edge == Head(edge_ids)
             r == to_penman_str(S, edge.to, visited,
                                Append(out_str, Piece("edge", "",
                                                      PenmanEdgeName(edge.token))),
                                is_strict)
         IN PenmanChildren(S, Tail(edge_ids), r.visited, r.out_str, is_strict)

\* line 703: the first node, in node order, without incoming edges
StartingNode(G) ==
    G.nodes[CHOOSE i \in 1..Len(G.nodes) :
               /\ in_degree(G, G.nodes[i]) = 0
               /\ \A j \in 1..(i - 1) : in_degree(G, G.nodes[j]) # 0]

\* the ill-formed check made in permissive mode too
PenmanPrecondition_AlwaysStrict(self, is_strict) ==
    IF ~self.is_dag THEN "CyclicGraph"
    ELSE IF self.is_possibly_ill_formed THEN "IllFormed"
    ELSE "none"

\* the ill-formed check made before the DAG check
PenmanPrecondition_FlagFirst(self, is_strict) ==
    IF is_strict /\ self.is_possibly_ill_formed THEN "IllFormed"
    ELSE IF ~self.is_dag THEN "CyclicGraph"
    ELSE "none"

\* lines 579-588: the two checks made before anything is written
PenmanPrecondition(self, is_strict) ==
    IF ~self.is_dag THEN "CyclicGraph"
    ELSE IF is_strict /\ self.is_possibly_ill_formed THEN "IllFormed"
    ELSE "none"

\* the renaming done on the caller's object itself (G = self)
PenmanObjects_Alias(self) ==
    [self |-> [self EXCEPT !.G = PenmanCopy(self.G)], G |-> PenmanCopy(self.G)]

\* lines 592-614: the caller's object and the working copy G = deepcopy(self)
\* after the renaming of the copy
PenmanObjects(self) == [self |-> self, G |-> PenmanCopy(self.G)]

\* lines 703-723: the emission from the starting node of the working copy
PenmanEmit(o, is_strict) ==
    [self |-> o.self, err |-> "none",
     out |-> to_penman_str(o.G, StartingNode(o.G), {}, <<>>, is_strict).out_str]

\* lines 554-723: the object after the call (its is_dag is recomputed), the
\* error raised and the pieces of the returned string; a node without data
\* has no "type", a KeyError
to_penman_string(self, is_strict) ==
    LET checked == check_is_dag(self)
        pre == PenmanPrecondition(checked, is_strict)
        G == checked.G
    IN IF pre # "none"
       THEN [self |-> checked, err |-> pre, out |-> <<>>]
       ELSE IF \E i \in 1..Len(G.nodes) : ~G.attrs[i].has
       THEN [self |-> checked, err |-> "KeyError", out |-> <<>>]
       ELSE IF \A n \in Range(G.nodes) : in_degree(G, n) # 0
       THEN [self |-> PenmanObjects(checked).self, err |-> "IndexError", out |-> <<>>]
       ELSE PenmanEmit(PenmanObjects(checked), is_strict)

(***************************************************************************)
(* sbn_graphs_are_isomorphic: networkx.is_isomorphic with node_cmp and     *)
(* edge_cmp, which compare the "token" of matched nodes and edges.         *)
(***************************************************************************)
Degree(G, n) == in_degree(G, n) + out_degree(G, n)

\* the two quick checks of is_isomorphic: order and sorted degrees
SameDegrees(A, B) ==
    /\ Len(A.nodes) = Len(B.nodes)
    /\ \A d \in 0..(2 * (Len(A.edges) + Len(B.edges))) :
          Cardinality({i \in 1..Len(A.nodes) : Degree(A, A.nodes[i]) = d})
          = Cardinality({i \in 1..Len(B.nodes) : Degree(B, B.nodes[i]) = d})

EdgeData(G, u, v) ==
    IF \E i \in 1..Len(G.edges) : G.edges[i].from = u /\ G.edges[i].to = v
    THEN <<TRUE, (G.edges[CHOOSE i \in 1..Len(G.edges) :
                             G.edges[i].from = u /\ G.edges[i].to = v]).token>>
    ELSE <<FALSE, <<>>>>

\* lines 825-826
node_cmp(node_a, node_b) == node_a.token = node_b.token

\* lines 828-829: two node pairs carry the same edges with the same tokens
edge_cmp(A, B, a1, a2, b1, b2) == EdgeData(A, a1, a2) = EdgeData(B, b1, b2)

HasDatalessNode(G) == \E i \in 1..Len(G.nodes) : ~G.attrs[i].has

(***************************************************************************)
(* The search of is_isomorphic (the VF2 DiGraphMatcher).  A partial        *)
(* mapping M is a set of pairs <<node of A, node of B>>.  The nodes of A   *)
(* that may be paired next are kept by the matcher in Python sets, whose   *)
(* iteration order changes from run to run with the hashes of the node     *)
(* ids: the search is modelled by the set of the outcomes it has over all  *)
(* the orders.                                                             *)
(***************************************************************************)
Succ(G, n) == {m \in Range(G.nodes) : EdgeData(G, n, m)[1]}

Pred(G, n) == {m \in Range(G.nodes) : EdgeData(G, m, n)[1]}

core_1(M) == {p[1] : p \in M}

core_2(M) == {p[2] : p \in M}

\* core_1[n]
MappedTo(M, n) == (CHOOSE p \in M : p[1] = n)[2]

\* core_2[n]
MappedFrom(M, n) == (CHOOSE p \in M : p[2] = n)[1]

\* in_1, out_1 (in_2, out_2): the matched nodes, and the nodes with an edge
\* to, or from, a matched node
TermIn(G, core) == core \cup UNION {Pred(G, c) : c \in core}

TermOut(G, core) == core \cup UNION {Succ(G, c) : c \in core}

\* min(S, key=G2_node_order): the first node of S in the node order of G
MinNode(G, S) ==
    G.nodes[CHOOSE i \in 1..Len(G.nodes) :
               /\ G.nodes[i] \in S
               /\ \A j \in 1..(i - 1) : G.nodes[j] \notin S]

\* DiGraphMatcher.candidate_pairs_iter: the pairs tried in a state
candidate_pairs_iter(A, B, M) ==
    LET T1_out == TermOut(A, core_1(M)) \ core_1(M)
        T2_out == TermOut(B, core_2(M)) \ core_2(M)
        T1_in == TermIn(A, core_1(M)) \ core_1(M)
        T2_in == TermIn(B, core_2(M)) \ core_2(M)
    IN IF T1_out # {} /\ T2_out # {}
       THEN {<<n, MinNode(B, T2_out)>> : n \in T1_out}
       ELSE IF T1_in # {} /\ T2_in # {}
       THEN {<<n, MinNode(B, T2_in)>> : n \in T1_in}
       ELSE {<<n, MinNode(B, Range(B.nodes) \ core_2(M))>> :
                n \in Range(A.nodes) \ core_1(M)}

\* the look-ahead counts of syntactic_feasibility: the neighbours nbrs of a
\* candidate that are in the terminal set, in the other one, in neither
LookAhead(nbrs, core, tin, tout) ==
    <<Cardinality({n \in nbrs : n \in tin /\ n \notin core}),
      Cardinality({n \in nbrs : n \in tout /\ n \notin core}),
      Cardinality({n \in nbrs : n \notin tin /\ n \notin tout})>>

\* DiGraphMatcher.syntactic_feasibility: the structural test of a pair
syntactic_feasibility(A, B, M, G1_node, G2_node) ==
    LET c1 == core_1(M)
        c2 == core_2(M)
    IN /\ (G1_node \in Succ(A, G1_node)) = (G2_node \in Succ(B, G2_node))
       /\ \A n \in Pred(A, G1_node) \cap c1 : MappedTo(M, n) \in Pred(B, G2_node)
       /\ \A n \in Pred(B, G2_node) \cap c2 : MappedFrom(M, n) \in Pred(A, G1_node)
       /\ \A n \in Succ(A, G1_node) \cap c1 : MappedTo(M, n) \in Succ(B, G2_node)
       /\ \A n \in Succ(B, G2_node) \cap c2 : MappedFrom(M, n) \in Succ(A, G1_node)
       /\ LookAhead(Pred(A, G1_node), c1, TermIn(A, c1), TermOut(A, c1))
          = LookAhead(Pred(B, G2_node), c2, TermIn(B, c2), TermOut(B, c2))
       /\ LookAhead(Succ(A, G1_node), c1, TermIn(A, c1), TermOut(A, c1))
          = LookAhead(Succ(B, G2_node), c2, TermIn(B, c2), TermOut(B, c2))

\* DiGraphMatcher.semantic_feasibility on two nodes that have data: node_cmp
\* on the pair, edge_cmp on the loops and on the edges to and from the
\* matched neighbours
semantic_feasibility(A, B, M, G1_node, G2_node) ==
    /\ node_cmp(AttrOf(A, G1_node), AttrOf(B, G2_node))
    /\ \A n \in Succ(A, G1_node) :
          IF n = G1_node
          THEN G2_node \in Succ(B, G2_node)
               => edge_cmp(A, B, G1_node, G1_node, G2_node, G2_node)
          ELSE (n \in core_1(M) /\ MappedTo(M, n) \in Succ(B, G2_node))
               => edge_cmp(A, B, G1_node, n, G2_node, MappedTo(M, n))
    /\ \A n \in Pred(A, G1_node) :
          IF n = G1_node
          THEN G2_node \in Pred(B, G2_node)
               => edge_cmp(A, B, G1_node, G1_node, G2_node, G2_node)
          ELSE (n \in core_1(M) /\ MappedTo(M, n) \in Pred(B, G2_node))
               => edge_cmp(A, B, n, G1_node, MappedTo(M, n), G2_node)

\* the outcomes of trying the pairs of a state one after the other, given
\* the outcomes of every pair: the first pair that does not fail decides,
\* and any pair can be the first
FirstOutcomes(rs) ==
    (UNION rs \ {"fail"}) \cup (IF \A r \in rs : "fail" \in r THEN {"fail"} ELSE {})

\* GraphMatcher.match: "true" when a full mapping is reached, "KeyError"
\* when node_cmp is handed a node without data (it is called only on a pair
\* that passed the structural test), "fail" when every pair failed
RECURSIVE match(_, _, _)
match(A, B, M) ==
    IF Cardinality(M) = Len(B.nodes) THEN {"true"}
    ELSE FirstOutcomes(
           {IF ~syntactic_feasibility(A, B, M, p[1], p[2]) THEN {"fail"}
            ELSE IF ~AttrOf(A, p[1]).has \/ ~AttrOf(B, p[2]).has THEN {"KeyError"}
            ELSE IF ~semantic_feasibility(A, B, M, p[1], p[2]) THEN {"fail"}
            ELSE match(A, B, M \cup {p}) :
              p \in candidate_pairs_iter(A, B, M)})

\* lines 815-831: the results the call can have: "true", "false", or
\* "KeyError" when node_cmp reads the token of a node that has no data
sbn_graphs_are_isomorphic(A, B) ==
    IF ~SameDegrees(A.G, B.G) THEN {"false"}
    ELSE {IF o = "fail" THEN "false" ELSE o : o \in match(A.G, B.G, {})}

(***************************************************************************)
(* The input documents: what split_comments returns, a sequence of         *)
(* non-blank lines, each a sequence of tokens.  A line is an optional      *)
(* sense id followed by items; a document has at most MaxLines lines and   *)
(* MaxItems items.                                                         *)
(***************************************************************************)
Items ==
    { <<"Agent", "+1">>, <<"Agent", "-1">>, <<"Theme", "+1">>, <<"Agent", "+0">>,
      <<"EQU", "+2">>, <<"Name", "\"New">>, <<"York\"">>, <<"Name", "\"Tom\"">>,
      <<"AttributeOf", "speaker">>, <<"NEGATION", "-1">>, <<"NEGATION">>,
      <<"Agent">>, <<"Agent", ">1">>, <<"Agent", "<1">>, <<"CONTINUATION", "+0">>,
      <<"CONTINUATION", "<2">>, <<"NEGATION", "+1">>, <<"NEGATION", "-1x">>,
      <<"Name", "\"New", "NEGATION", "York\"">> }

SynsetAt(i) == IF i % 2 = 1 THEN "person.n.01" ELSE "see.v.01"

RECURSIVE Bodies(_)
Bodies(k) == IF k = 0 THEN {<<>>} ELSE {i \o b : i \in Items, b \in Bodies(k - 1)}

LinesAt(i, k) == {hd \o b : hd \in {<<>>, <<SynsetAt(i)>>}, b \in Bodies(k)} \ {<<>>}

\* the documents of lines i..n that hold at most budget items
RECURSIVE DocsFrom(_, _, _)
DocsFrom(i, n, budget) ==
    IF i > n THEN {<<>>}
    ELSE UNION {{<<l>> \o d : l \in LinesAt(i, k), d \in DocsFrom(i + 1, n, budget - k)} :
                k \in 0..budget}

Docs == UNION {DocsFrom(1, n, MaxItems) : n \in 0..MaxLines}

(***************************************************************************)
(* The state machine: a caller builds a graph from a document, and then    *)
(* serializes it, parses a second document into a second graph and         *)
(* compares the two.                                                       *)
(***************************************************************************)
Init ==
    /\ doc \in Docs
    /\ g = NewGraph
    /\ run = NoRun
    /\ op = "new"
    /\ err = "none"
    /\ sbn = <<>>
    /\ doc2 = <<>>
    /\ h = NewGraph
    /\ rel = "none"
    /\ iso = "none"
    /\ penman = <<>>
    /\ strict = TRUE

\* G = SBNGraph().from_string(doc)
FromString ==
    /\ op = "new"
    /\ LET r == from_string(g, doc) IN
       /\ g' = r.self
       /\ run' = r.run
       /\ err' = r.err
    /\ op' = "from_string"
    /\ UNCHANGED <<doc, sbn, doc2, h, rel, iso, penman, strict>>

\* sbn = G.to_sbn_string()
ToSbnString ==
    /\ op = "from_string"
    /\ err = "none"
    /\ LET r == to_sbn_string(g) IN
       /\ sbn' = r.out
       /\ err' = r.err
    /\ op' = "to_sbn_string"
    /\ UNCHANGED <<doc, g, run, doc2, h, rel, iso, penman, strict>>

\* the document with the len tokens from position pos on (counted from 0
\* over the whole document) replaced by the tokens new
RECURSIVE ReplaceAt(_, _, _, _)
ReplaceAt(d, pos, len, new) ==
    IF d = <<>> THEN <<>>
    ELSE IF pos >= Len(Head(d))
    THEN <<Head(d)>> \o ReplaceAt(Tail(d), pos - Len(Head(d)), len, new)
    ELSE <<SubSeq(Head(d), 1, pos) \o new \o SubSeq(Head(d), pos + len + 1, Len(Head(d)))>>
         \o Tail(d)

\* the documents that differ from the parsed one in the literal text of
\* exactly one constant: a plain constant becomes hearer, a name "Ann"
Variants ==
    {ReplaceAt(doc, run.events[i].pos + 1, Len(run.events[i].target),
               IF run.events[i].ev = "name" THEN <<"\"Ann\"">> ELSE <<"hearer">>) :
       i \in {j \in 1..Len(run.events) : run.events[j].ev \in {"constant", "name"}}}

\* the documents a graph object is asked to parse after its first
AgainDocs == {<<>>, << <<"see.v.01", "Agent", "+0">> >>, << <<"person.n.01", "NEGATION">> >>}

SecondParse(d, r) ==
    /\ op \in {"from_string", "to_sbn_string"}
    /\ err = "none"
    /\ LET res == from_string(NewGraph, d) IN
       /\ h' = res.self
       /\ err' = res.err
    /\ doc2' = d
    /\ rel' = r
    /\ op' = "second"
    /\ UNCHANGED <<doc, g, run, sbn, iso, penman, strict>>

\* H = SBNGraph().from_string(G.to_sbn_string())
Reparse == op = "to_sbn_string" /\ SecondParse(sbn, "roundtrip")

\* H = SBNGraph().from_string(doc), the same document again
ParseSame == op = "from_string" /\ SecondParse(doc, "same")

\* H = SBNGraph().from_string(d), d the document with one constant changed
ParseVariant == op = "from_string" /\ \E d \in Variants : SecondParse(d, "variant")

\* sbn_graphs_are_isomorphic(G, H)
Compare ==
    /\ op = "second"
    /\ err = "none"
    /\ iso' \in sbn_graphs_are_isomorphic(g, h)
    /\ op' = "compare"
    /\ UNCHANGED <<doc, g, run, err, sbn, doc2, h, rel, penman, strict>>

\* G.to_penman_string(strict=s)
ToPenmanString ==
    /\ op = "from_string"
    /\ err = "none"
    /\ \E s \in BOOLEAN :
          LET r == to_penman_string(g, s) IN
          /\ g' = r.self
          /\ err' = r.err
          /\ penman' = r.out
          /\ strict' = s
    /\ op' = "to_penman_string"
    /\ UNCHANGED <<doc, run, sbn, doc2, h, rel, iso>>

\* the running state of the allocator of a parsed graph, for a call of
\* create_node or create_edge made by the caller
Allocator == [type_indices |-> g.type_indices, alloc |-> run.alloc]

\* G.create_node(type, token), called on a parsed graph: the tuple is
\* returned to the caller, the counter of the type advances and the nodes
\* and edges of the graph stay as they are
CreateNode ==
    /\ op = "from_string"
    /\ err = "none"
    /\ \E type \in SBN_NODE_TYPE :
          LET r == create_node(Allocator, type, <<"B-9">>) IN
          /\ g' = [g EXCEPT !.type_indices = r.p.type_indices]
          /\ run' = [run EXCEPT !.alloc = r.p.alloc]
    /\ op' = "create_node"
    /\ UNCHANGED <<doc, err, sbn, doc2, h, rel, iso, penman, strict>>

\* G.create_edge(from, to, type, token), called on a parsed graph
CreateEdge ==
    /\ op = "from_string"
    /\ err = "none"
    /\ \E type \in SBN_EDGE_TYPE :
          LET r == create_edge(Allocator, <<BOX, 0>>, <<SYNSET, 0>>, type, <<"Agent">>) IN
          /\ g' = [g EXCEPT !.type_indices = r.p.type_indices]
          /\ run' = [run EXCEPT !.alloc = r.p.alloc]
    /\ op' = "create_edge"
    /\ UNCHANGED <<doc, err, sbn, doc2, h, rel, iso, penman, strict>>

\* G.from_string(d): the same object parses another document
FromStringAgain ==
    /\ op \in {"from_string", "create_node", "create_edge"}
    /\ \E d \in AgainDocs :
          LET r == from_string(g, d) IN
          /\ g' = r.self
          /\ run' = r.run
          /\ err' = r.err
          /\ doc2' = d
    /\ op' = "from_string_again"
    /\ UNCHANGED <<doc, sbn, h, rel, iso, penman, strict>>

Next ==
    \/ FromString
    \/ ToSbnString
    \/ Reparse
    \/ ParseSame
    \/ ParseVariant
    \/ Compare
    \/ ToPenmanString
    \/ CreateNode
    \/ CreateEdge
    \/ FromStringAgain

Spec == Init /\ [][Next]_vars

(***************************************************************************)
(* Well-formed documents (section 3 of the specification): the parse       *)
(* returns, no index had to be reinterpreted as a literal, every token was *)
(* classified, every edge joins nodes the parser created, the document has *)
(* a reading, and the boxes form a chain: no box links to two boxes and    *)
(* every box but the first is linked from exactly one, earlier, box.       *)
(***************************************************************************)
EventKinds(r) == {r.events[i].ev : i \in 1..Len(r.events)}

BoxLinks(G) == {i \in 1..Len(G.edges) : G.edges[i].type = BOX_BOX_CONNECT}

WellFormed(self, r) ==
    /\ ~self.is_possibly_ill_formed
    /\ ~HasDatalessNode(self.G)
    /\ EventKinds(r) \cap {"skip", "newbox_ignored", "edge_out_of_range"} = {}
    /\ "synset" \in EventKinds(r)
    /\ \A i \in BoxLinks(self.G) : self.G.edges[i].from[2] < self.G.edges[i].to[2]
    /\ \A b \in {n \in Range(self.G.nodes) : n[1] = BOX} :
          /\ Cardinality({i \in BoxLinks(self.G) : self.G.edges[i].from = b}) <= 1
          /\ b # <<BOX, 0>> =>
                Cardinality({i \in BoxLinks(self.G) : self.G.edges[i].to = b}) = 1

\* the graph has a directed cycle: some node reaches itself along edges
RECURSIVE ReachableIn(_, _, _)
ReachableIn(G, S, steps) ==
    IF steps = 0 THEN S
    ELSE ReachableIn(G, S \cup {G.edges[i].to : i \in {j \in 1..Len(G.edges) :
                                                     G.edges[j].from \in S}}, steps - 1)

HasDirectedCycle(G) ==
    \E i \in 1..Len(G.edges) :
       G.edges[i].from \in ReachableIn(G, {G.edges[i].to}, Len(G.nodes))

\* the ':name ' labels of a tree text
EdgeLabels(out) == {i \in 1..Len(out) : out[i].t = "edge"}

(***************************************************************************)
(* The claims.                                                             *)
(***************************************************************************)

\* C1: for a well-formed document, to_sbn_string of its graph returns, the
\* returned text parses, and the two graphs are reported isomorphic.
C1_RoundTripStable ==
    ( /\ op \in {"to_sbn_string", "second", "compare"}
      /\ op # "to_sbn_string" => rel = "roundtrip"
      /\ WellFormed(g, run) )
    => (err = "none" /\ (op = "compare" => iso = "true"))

\* C2: to_penman_string of a graph with a directed cycle raises the
\* cyclic-graph error, strict or not, flagged ill-formed or not, and
\* returns no text.
C2_CyclicNeverSerialized ==
    (op = "to_penman_string" /\ HasDirectedCycle(g.G))
    => (err = "CyclicGraph" /\ penman = <<>>)

\* C2 witness: a flagged graph with a self-loop, refused in strict mode as cyclic
C2_Witness ==
    /\ op = "to_penman_string"
    /\ strict
    /\ g.is_possibly_ill_formed
    /\ \E i \in 1..Len(g.G.edges) : g.G.edges[i].from = g.G.edges[i].to
    /\ err = "CyclicGraph"

\* C3: to_penman_string (strict) of an acyclic graph whose ill-formed flag
\* is false returns, and its text has one edge label per edge of the graph.
C3_PenmanKeepsEveryEdge ==
    ( /\ op = "to_penman_string"
      /\ strict
      /\ ~HasDirectedCycle(g.G)
      /\ ~g.is_possibly_ill_formed )
    => (err = "none" /\ Cardinality(EdgeLabels(penman)) = Len(g.G.edges))

\* C4: a document in which a new-box indicator is not followed by an index
\* token fails with the missing-box-index error.  The indicators counted
\* are those the parser classified as such and found followed by a token
\* that is not an index.
C4_MissingBoxIndexIsFatal ==
    (op = "from_string" /\ "newbox_ignored" \in EventKinds(run))
    => err = "MissingBoxIndex"

\* C5: the graphs of two identical documents are reported isomorphic, and
\* the graphs of two documents that differ in one constant's literal text
\* are not.
C5_IsomorphicIffSameTokens ==
    (op = "compare" /\ rel \in {"same", "variant"})
    => (IF rel = "same" THEN iso = "true" ELSE iso # "true")

\* the events of the last from_string call and the tokens of its document
Events == {run.events[i] : i \in 1..Len(run.events)}

DocTokens == Flatten(doc)

\* the index of the last reading (line) of the document
LastReadingIndex == Len(doc) - 1

\* role and operator tokens whose target was read as a signed index
IndexTargets == {e \in Events : e.ev \in {"edge_synset", "edge_out_of_range"}}

ResolvedIndex(e) == e.src[2] + e.idx

InRange(e) == 0 <= ResolvedIndex(e) /\ ResolvedIndex(e) <= LastReadingIndex

KindOf(token) == IF token \in ROLES THEN ROLE ELSE DRS_OPERATOR

\* the synset that is active at an event: the last one opened before it
ActiveSynsetAt(e) ==
    <<SYNSET, Cardinality({f \in Events : f.ev = "synset" /\ f.pos < e.pos}) - 1>>

\* the boxes opened before an event, the starting box included
BoxesBefore(e) == 1 + Cardinality({f \in Events : f.ev = "newbox" /\ f.pos < e.pos})

IsNode(G, id, type) == HasNode(G, id) /\ AttrOf(G, id).has /\ AttrOf(G, id).type = type

EdgesInto(G, id) == {i \in 1..Len(G.edges) : G.edges[i].to = id}

\* C6: a role or operator index after a synset that resolves within
\* [0, last reading index] makes an edge of the token's kind from the active synset to the
\* Synset node at the resolved position, that node is a synset of the
\* finished graph, and no Constant is made for the target.
C6_InRangeIndexHitsSynset ==
    (op = "from_string" /\ err = "none")
    => \A e \in IndexTargets :
          (InRange(e) /\ ActiveSynsetAt(e)[2] >= 0) =>
             /\ e.ev = "edge_synset"
             /\ \E i \in 1..Len(run.edges) :
                   /\ run.edges[i].from = ActiveSynsetAt(e)
                   /\ run.edges[i].to = <<SYNSET, ResolvedIndex(e)>>
                   /\ run.edges[i].type = KindOf(e.token)
             /\ IsNode(g.G, <<SYNSET, ResolvedIndex(e)>>, SYNSET)

\* C7: a role or operator index that resolves outside [0, last reading
\* index] becomes a new Constant node holding the target text, with an edge
\* of the token's kind (Role or DrsOperator) from the active synset; and a
\* fresh graph is flagged possibly ill-formed after from_string exactly
\* when the document had such a target.
C7_OutOfRangeIndexIsFlaggedConstant ==
    op = "from_string"
    => /\ g.is_possibly_ill_formed <=> (\E e \in IndexTargets : ~InRange(e))
       /\ err = "none" =>
             \A e \in IndexTargets :
                ~InRange(e) =>
                   /\ e.ev = "edge_out_of_range"
                   /\ IsNode(g.G, e.dst, CONSTANT_NODE)
                   /\ AttrOf(g.G, e.dst).token = <<DocTokens[e.pos + 2]>>
                   /\ \A f \in Events : f # e => f.dst # e.dst
                   /\ \E i \in EdgesInto(g.G, e.dst) :
                         /\ EdgesInto(g.G, e.dst) = {i}
                         /\ g.G.edges[i].from = ActiveSynsetAt(e)
                         /\ g.G.edges[i].type = KindOf(e.token)
                         /\ g.G.edges[i].token = <<e.token>>

\* C7 witness: an operator index past the last reading became a constant
C7_Witness ==
    /\ op = "from_string"
    /\ err = "none"
    /\ g.is_possibly_ill_formed
    /\ \E e \in IndexTargets :
          /\ ~InRange(e)
          /\ e.token \in DRS_OPERATORS
          /\ IsNode(g.G, e.dst, CONSTANT_NODE)
    /\ \E e \in IndexTargets : InRange(e)

\* the number of tokens a quoted name takes, counted from its opening token
RECURSIVE NameLength(_, _)
NameLength(tokens, from) ==
    IF from > Len(tokens) THEN 0
    ELSE IF EndsWithQuote(tokens[from]) THEN 1
    ELSE 1 + NameLength(tokens, from + 1)

\* the tokens of the name that a "name" event opened
NameTokens(e) == SubSeq(DocTokens, e.pos + 2, e.pos + 1 + NameLength(DocTokens, e.pos + 2))

\* C8: a quoted name that is not closed on its opening token takes the
\* following tokens up to the one with the closing quote, in order, as the
\* text of one new Constant node joined to the active synset by one Role
\* edge, and none of the tokens taken is classified again.
C8_QuotedNameIsOneConstant ==
    (op = "from_string" /\ err = "none")
    => \A e \in {f \in Events : f.ev = "name"} :
          /\ IsNode(g.G, e.dst, CONSTANT_NODE)
          /\ AttrOf(g.G, e.dst).token = NameTokens(e)
          /\ \A f \in Events : f # e => f.dst # e.dst
          /\ \E i \in EdgesInto(g.G, e.dst) :
                /\ EdgesInto(g.G, e.dst) = {i}
                /\ g.G.edges[i].from = ActiveSynsetAt(e)
                /\ g.G.edges[i].type = ROLE
          /\ \A f \in Events : f.pos <= e.pos \/ f.pos > e.pos + Len(NameTokens(e))

\* C8 witness: a three-token name with a box keyword inside it, and a token
\* classified after it
C8_Witness ==
    /\ op = "from_string"
    /\ err = "none"
    /\ \E e \in Events :
          /\ e.ev = "name"
          /\ Len(NameTokens(e)) = 3
          /\ NameTokens(e)[2] \in NEW_BOX_INDICATORS
          /\ AttrOf(g.G, e.dst).token = NameTokens(e)
          /\ \E f \in Events : f.pos = e.pos + 4

\* the offset written after the indicator of a "newbox" event
BoxOffset(e) == IntOf(ReplaceAngles(INDEX_PATTERN_match(DocTokens[e.pos + 2])))

BoxLinksInto(G, b) == {i \in BoxLinks(G) : G.edges[i].to = b}

\* C9: a new box opened with a nonzero offset is the target of the one
\* BoxBoxConnect edge made for it, whose source is the box numbered
\* max(0, active box index + offset + 1); with offset 0 no edge is made.
C9_BoxLinkSourceIsClamped ==
    (op = "from_string" /\ err = "none")
    => \A e \in {f \in Events : f.ev = "newbox"} :
          LET new_box == <<BOX, BoxesBefore(e)>>
              active == BoxesBefore(e) - 1
              from_idx == IF active + BoxOffset(e) + 1 > 0
                          THEN active + BoxOffset(e) + 1 ELSE 0
          IN /\ IsNode(g.G, new_box, BOX)
             /\ BoxOffset(e) = 0 => BoxLinksInto(g.G, new_box) = {}
             /\ BoxOffset(e) # 0 =>
                   \E i \in BoxLinksInto(g.G, new_box) :
                      /\ BoxLinksInto(g.G, new_box) = {i}
                      /\ g.G.edges[i].from = <<BOX, from_idx>>
                      /\ g.G.edges[i].token = <<e.token>>

\* C9 witness: a second box opened two back from the first is linked from
\* box 0, and a box opened with offset 0 is linked from nowhere
C9_Witness ==
    /\ op = "from_string"
    /\ err = "none"
    /\ \E e \in Events :
          /\ e.ev = "newbox"
          /\ BoxesBefore(e) = 1
          /\ BoxOffset(e) = -2
          /\ \E i \in BoxLinksInto(g.G, <<BOX, 1>>) : g.G.edges[i].from = <<BOX, 0>>
    /\ \E e \in Events :
          /\ e.ev = "newbox"
          /\ BoxOffset(e) = 0
          /\ BoxLinksInto(g.G, <<BOX, BoxesBefore(e)>>) = {}

\* the identifiers handed out for one kind, in the order of the calls
AllocOf(kind) == SelectSeq(run.alloc, LAMBDA id : id[1] = kind)

\* C10: within one from_string call the identifiers handed out for a kind
\* are (kind, 0), (kind, 1), ... in order, none twice, and every call
\* starts every kind again at 0.  An identifier the caller asks for after
\* the call continues the sequence of its kind.
C10_IdsAreSequentialPerKind ==
    op \in {"from_string", "from_string_again", "create_node", "create_edge"}
    => \A kind \in SBN_NODE_TYPE \cup SBN_EDGE_TYPE :
          \A i \in 1..Len(AllocOf(kind)) : AllocOf(kind)[i] = <<kind, i - 1>>

\* C10 witness: a second call on a graph that already holds two boxes and a
\* synset hands out (Box, 0) and (Synset, 0) again
C10_Witness ==
    /\ op = "from_string_again"
    /\ err = "none"
    /\ AllocOf(BOX) = <<<<BOX, 0>>>>
    /\ AllocOf(SYNSET) = <<<<SYNSET, 0>>>>
    /\ Cardinality({n \in Range(g.G.nodes) : n[1] = BOX}) >= 2
    /\ run.alloc[1] = <<BOX, 0>>

\* the nodes of a kind, by the kind in their identifier
NodesOf(G, kind) == {n \in Range(G.nodes) : n[1] = kind}

\* the BoxConnect edges that end at a node
BoxConnectsInto(G, n) == {i \in EdgesInto(G, n) : G.edges[i].type = BOX_CONNECT}

\* C11: in a graph returned by from_string no Box node has two outgoing
\* BoxBoxConnect edges; a document that would give a box a second one is
\* rejected.
C11_BoxLinksToOneBox ==
    (op = "from_string" /\ err = "none")
    => \A b \in NodesOf(g.G, BOX) :
          Cardinality({i \in BoxLinks(g.G) : g.G.edges[i].from = b}) <= 1

\* C12: in a graph returned by from_string every Synset node reachable from
\* a box is the target of exactly one BoxConnect edge, and no Synset or
\* Constant node is the target of BoxConnect edges from two boxes.
C12_ReadingInOneBox ==
    (op = "from_string" /\ err = "none")
    => /\ \A n \in NodesOf(g.G, SYNSET) \cap
                   ReachableIn(g.G, NodesOf(g.G, BOX), Len(g.G.nodes)) :
             Cardinality(BoxConnectsInto(g.G, n)) = 1
       /\ \A n \in NodesOf(g.G, SYNSET) \cup NodesOf(g.G, CONSTANT_NODE) :
             Cardinality({g.G.edges[i].from : i \in BoxConnectsInto(g.G, n)}) <= 1

\* C13: to_penman_string in strict mode on an acyclic graph whose
\* possibly-ill-formed flag is set raises the ill-formed error, and nothing
\* else does: from_string, to_sbn_string and to_penman_string in permissive
\* mode never raise it.
C13_FlagFatalOnlyInStrictPenman ==
    /\ (op = "to_penman_string" /\ strict /\ g.is_possibly_ill_formed
          /\ ~HasDirectedCycle(g.G)) => err = "IllFormed"
    /\ err = "IllFormed" => (op = "to_penman_string" /\ strict /\ g.is_possibly_ill_formed)

\* C13 witness: a flagged acyclic graph is refused in strict mode
C13_Witness ==
    /\ op = "to_penman_string"
    /\ strict
    /\ g.is_possibly_ill_formed
    /\ ~HasDirectedCycle(g.G)
    /\ err = "IllFormed"
    /\ penman = <<>>

\* C14: a call of to_penman_string, returning or raising, leaves the
\* caller's nodes, edges, node and edge tokens and possibly-ill-formed flag
\* as they were; 'box' and 'member' are written on the working copy only.
C14_PenmanLeavesCallerGraph ==
    [][op' = "to_penman_string" =>
          /\ g'.G = g.G
          /\ g'.is_possibly_ill_formed = g.is_possibly_ill_formed]_vars

\* C14 witness: the text says "box" and member while the caller's graph
\* still says B-0 and keeps the token of its BoxConnect edge
C14_Witness ==
    /\ op = "to_penman_string"
    /\ err = "none"
    /\ \E i \in 1..Len(penman) : penman[i].t = "open" /\ penman[i].text = <<"\"box\"">>
    /\ \E i \in 1..Len(penman) : penman[i].t = "edge" /\ penman[i].text = <<"member">>
    /\ AttrOf(g.G, <<BOX, 0>>).token = <<"B-0">>
    /\ \E i \in 1..Len(g.G.edges) :
          g.G.edges[i].type = BOX_CONNECT /\ g.G.edges[i].token # <<"member">>

\* C15: when from_string returns, and when to_penman_string has consulted
\* it, is_dag is true exactly when the edges of the graph hold no directed
\* cycle.
C15_IsDagReflectsEdges ==
    ((op \in {"from_string", "from_string_again"} /\ err = "none")
        \/ op = "to_penman_string")
    => (g.is_dag <=> ~HasDirectedCycle(g.G))

\* C15 witness: two nodes that point at each other, and is_dag false
C15_Witness ==
    /\ op = "from_string"
    /\ err = "none"
    /\ ~g.is_dag
    /\ \E i, j \in 1..Len(g.G.edges) :
          /\ g.G.edges[i].from = g.G.edges[j].to
          /\ g.G.edges[i].to = g.G.edges[j].from
          /\ g.G.edges[i].from # g.G.edges[i].to

\* the four parse errors: empty document, missing index after a new-box
\* indicator, missing target after a role or operator, unparsable index
ParseErrors == {"EmptyDocument", "MissingBoxIndex", "MissingTarget", "InvalidIndex"}

\* C16: from_string either returns a graph or raises one of the four parse
\* errors, whatever the tokens of the document are.
C16_OnlyParseErrors ==
    op \in {"from_string", "from_string_again"} => err \in ParseErrors \cup {"none"}

\* the pieces of a kind in a tree text
PiecesOf(out, t) == {i \in 1..Len(out) : out[i].t = t}

\* the variables to_penman_string gives to Constant nodes
ConstantVars(G) == {"c" \o ToString(k) : k \in 0..Len(G.nodes)}

\* C17: in strict and in permissive mode the tree text has one ')' for
\* every '(', never more ')' than '(' before any point, and no Constant
\* node is written with a parenthesis.
C17_PenmanIsParenthesized ==
    (op = "to_penman_string" /\ err = "none")
    => /\ Cardinality(PiecesOf(penman, "open")) = Cardinality(PiecesOf(penman, "close"))
       /\ \A k \in 1..Len(penman) :
             Cardinality(PiecesOf(SubSeq(penman, 1, k), "close"))
                <= Cardinality(PiecesOf(SubSeq(penman, 1, k), "open"))
       /\ \A i \in PiecesOf(penman, "open") : penman[i].var \notin ConstantVars(g.G)

\* the nodes the emission reaches from its starting node
Emitted(G) == ReachableIn(G, {StartingNode(G)}, Len(G.nodes))

\* the pieces of a kind that name a variable
PiecesFor(out, t, var) == {i \in PiecesOf(out, t) : out[i].var = var}

\* the visits of a node: one per edge from an emitted node, and the first
\* call for the starting node
Visits(G, n) ==
    Cardinality({i \in EdgesInto(G, n) : G.edges[i].from \in Emitted(G)})
    + (IF n = StartingNode(G) THEN 1 ELSE 0)

\* C18: to_penman_string on an acyclic graph returns, and every node that
\* is not a constant and is reachable from the starting node is expanded
\* once, at its first visit; each later visit writes its variable only.
C18_NodeExpandedOnce ==
    (op = "to_penman_string" /\ err = "none")
    => \A n \in {m \in Emitted(g.G) : AttrOf(g.G, m).type # CONSTANT_NODE} :
          LET var == VarOf(g.G, n) IN
          /\ Cardinality(PiecesFor(penman, "open", var)) = 1
          /\ Cardinality(PiecesFor(penman, "ref", var)) = Visits(g.G, n) - 1
          /\ \A i \in PiecesFor(penman, "ref", var) :
                \E j \in PiecesFor(penman, "open", var) : j < i

\* C18 witness: a synset met a second time is written as its variable
C18_Witness ==
    /\ op = "to_penman_string"
    /\ err = "none"
    /\ \E n \in NodesOf(g.G, SYNSET) :
          /\ Visits(g.G, n) = 2
          /\ Cardinality(PiecesFor(penman, "ref", VarOf(g.G, n))) = 1
          /\ Cardinality(PiecesFor(penman, "open", VarOf(g.G, n))) = 1

\* the lines of a linear text that are readings, not box lines
ReadingLines(out) == SelectSeq(out, LAMBDA l : l[1] \notin NEW_BOX_INDICATORS)

\* a signed distance as the notation writes it
SignedText(d) == IF d >= 0 THEN "+" \o ToString(d) ELSE "-" \o ToString(0 - d)

\* the role and operator edges between two synsets
SynsetEdges(G) ==
    {i \in 1..Len(G.edges) : /\ G.edges[i].type \in {ROLE, DRS_OPERATOR}
                             /\ G.edges[i].from[1] = SYNSET
                             /\ G.edges[i].to[1] = SYNSET}

\* what the reading of the synset numbered a must say: its token, and for
\* each of its edges the edge token and either the signed distance to the
\* target synset or the text of the target constant
ExpectedReading(G, a) ==
    LET es == SelectSeq(G.edges, LAMBDA e : e.from = <<SYNSET, a>>) IN
    AttrOf(G, <<SYNSET, a>>).token
    \o Flatten([i \in 1..Len(es) |->
                  es[i].token \o (IF es[i].to[1] = SYNSET
                                  THEN <<SignedText(es[i].to[2] - a)>>
                                  ELSE AttrOf(G, es[i].to).token)])

\* C19: to_sbn_string writes a reference from synset A to synset B as the
\* reading position of B minus that of A, box lines not counted, with '+'
\* when it is zero or more; parsed again from A's reading it resolves to B.
C19_ReferencesAreRelativeReadings ==
    /\ (op = "to_sbn_string" /\ err = "none")
       => \A n \in {m \in NodesOf(g.G, SYNSET) : IsNode(g.G, m, SYNSET)} :
             /\ n[2] + 1 \in 1..Len(ReadingLines(sbn))
             /\ ReadingLines(sbn)[n[2] + 1] = ExpectedReading(g.G, n[2])
    /\ (op = "second" /\ rel = "roundtrip" /\ err = "none")
       => \A i \in {k \in SynsetEdges(g.G) : IsNode(g.G, g.G.edges[k].from, SYNSET)} :
             \E j \in SynsetEdges(h.G) :
                /\ h.G.edges[j].from = g.G.edges[i].from
                /\ h.G.edges[j].to = g.G.edges[i].to
                /\ h.G.edges[j].token = g.G.edges[i].token

\* C19 witness: a reference to the reading before, across a box line
C19_Witness ==
    /\ op = "to_sbn_string"
    /\ err = "none"
    /\ Len(sbn) = 3
    /\ sbn[2] = <<"NEGATION", "-1">>
    /\ sbn[3] = <<"person.n.01", "Agent", "-1">>
    /\ \E i \in SynsetEdges(g.G) :
          g.G.edges[i].from = <<SYNSET, 1>> /\ g.G.edges[i].to = <<SYNSET, 0>>

\* the nodes without incoming edges
Roots(G) == {n \in Range(G.nodes) : EdgesInto(G, n) = {}}

\* C20: in an acyclic graph returned by from_string the seed box (Box, 0)
\* is the one node without incoming edges, and every node the parser
\* created is reachable from it.
C20_SeedBoxIsTheOnlyRoot ==
    (op = "from_string" /\ err = "none" /\ ~HasDirectedCycle(g.G))
    => /\ Roots(g.G) = {<<BOX, 0>>}
       /\ \A i \in 1..Len(run.nodes) :
             run.nodes[i].id \in ReachableIn(g.G, {<<BOX, 0>>}, Len(g.G.nodes))

\* a node identifier that the last from_string call allocated and filled
CreatedInParse(n) ==
    /\ \E k \in 1..Len(run.nodes) : run.nodes[k].id = n
    /\ 0 <= n[2] /\ n[2] < g.type_indices[n[1]]
    /\ HasNode(g.G, n) /\ AttrOf(g.G, n).has

\* C21: in a graph built by from_string both end points of every edge are
\* nodes created in that parse, with a kind, an index below the number
\* allocated for the kind and a token.
C21_EdgeEndsWereCreated ==
    (op = "from_string" /\ err = "none")
    => \A i \in 1..Len(g.G.edges) :
          CreatedInParse(g.G.edges[i].from) /\ CreatedInParse(g.G.edges[i].to)

\* C22: a from_string call that raises leaves the nodes and the edges of
\* the graph as they were before the call; what the call had collected is
\* not merged.
C22_FailedParseKeepsGraph ==
    [][(op' \in {"from_string", "from_string_again"} /\ err' # "none")
          => g'.G = g.G]_vars

\* C22 witness: a second call on a filled graph raised after it had
\* collected a synset, and the graph does not hold that synset
C22_Witness ==
    /\ op = "from_string_again"
    /\ err = "MissingBoxIndex"
    /\ Len(g.G.nodes) >= 2
    /\ \E k \in 1..Len(run.nodes) :
          run.nodes[k].type = SYNSET /\ ~HasNode(g.G, run.nodes[k].id)

\* C23: in a graph built by from_string on a new graph object (one document
\* per graph) every Constant node has exactly one incoming edge, from a
\* synset position by a Role or DrsOperator edge, and no outgoing edge; the tree text writes each constant it reaches once and
\* never refers back to it.
C23_ConstantsAreLeaves ==
    /\ (op = "from_string" /\ err = "none")
       => \A n \in NodesOf(g.G, CONSTANT_NODE) :
             /\ IsNode(g.G, n, CONSTANT_NODE)
             /\ Cardinality(EdgesInto(g.G, n)) = 1
             /\ \A i \in EdgesInto(g.G, n) :
                   /\ g.G.edges[i].type \in {ROLE, DRS_OPERATOR}
                   /\ g.G.edges[i].from[1] = SYNSET
             /\ \A i \in 1..Len(g.G.edges) : g.G.edges[i].from # n
    /\ (op = "to_penman_string" /\ err = "none")
       => \A n \in NodesOf(g.G, CONSTANT_NODE) \cap Emitted(g.G) :
             /\ Cardinality(PiecesFor(penman, "literal", VarOf(g.G, n))
                            \cup PiecesFor(penman, "open", VarOf(g.G, n))) = 1
             /\ PiecesFor(penman, "ref", VarOf(g.G, n)) = {}

\* C23 witness: two synsets with a constant each that says the same, kept
\* as two leaves
C23_Witness ==
    /\ op = "from_string"
    /\ err = "none"
    /\ \E m, n \in NodesOf(g.G, CONSTANT_NODE) :
          /\ m # n
          /\ AttrOf(g.G, m).token = AttrOf(g.G, n).token
          /\ \E i \in EdgesInto(g.G, m), j \in EdgesInto(g.G, n) :
                /\ g.G.edges[i].from # g.G.edges[j].from
                /\ IsNode(g.G, g.G.edges[i].from, SYNSET)
                /\ IsNode(g.G, g.G.edges[j].from, SYNSET)
====
